---------------------------- MODULE Spec2Model ----------------------------
(***************************************************************************)
(* Model of nest/experiment/parser/netperf.py: run_netperf builds the      *)
(* netperf client command, optionally sleeps, runs the client as a child   *)
(* process, parses its output (parse_stats) and merges the samples into    *)
(* the shared NetperfResults store under the caller-supplied lock.         *)
(*                                                                         *)
(* Each concurrent unit (thread/process running run_netperf) has a         *)
(* position pc[u]; one action per step of the code between two points at   *)
(* which another unit can be observed to interleave.                       *)
(***************************************************************************)
EXTENDS Integers, Sequences, FiniteSets, TLC

(***************************************************************************)
(* Bounds of the model.                                                    *)
(***************************************************************************)
\* number of concurrent units calling run_netperf
NumUnits == 2
\* longest raw output, in marker/other lines, of the parser specification
MaxLen == 6
\* digits after the decimal point kept by the fixed-point image of a float
FracDigits == 2

Units == 1..NumUnits

(***************************************************************************)
(* Module-level constants of netperf.py.                                   *)
(***************************************************************************)
RUNTIME == 10

\* '-D -{}'.format(INTERVAL) with INTERVAL = 0.2
INTERVAL == "0.2"

\* An option set is a Python dict: an insertion-ordered mapping, modelled as
\* a sequence of <<key, fragment>> pairs; a fragment is the sequence of the
\* whitespace-separated words of its text.
InitialDefaultOptions ==
    << <<"banner",    <<"-P", "0">> >>,
       <<"ipv4",      <<"-4">> >>,
       <<"testname",  <<"-t", "TCP_STREAM">> >>,
       <<"fill_file", <<"-F", "/dev/urandom">> >>,
       <<"testlen",   <<"-l", ToString(RUNTIME)>> >>,
       <<"intervel",  <<"-D", "-" \o INTERVAL>> >> >>

InitialTcpOptions ==
    << <<"cong_algo", <<"-K", "cubic">> >>,
       <<"stats",     <<"-k", "THROUGHPUT">> >> >>

InitialUdpOptions ==
    << <<"routing",   <<"-R", "1">> >>,
       <<"stats",     <<"-k", "THROUGHPUT">> >> >>

\* The module-level option sets are objects every run_netperf call of the
\* process reads: they are state, with the literals above as first values.
VARIABLES
    DEFAULT_NETPERF_OPTIONS,
    NETPERF_TCP_OPTIONS,
    NETPERF_UDP_OPTIONS

module_options ==
    <<DEFAULT_NETPERF_OPTIONS, NETPERF_TCP_OPTIONS, NETPERF_UDP_OPTIONS>>

(***************************************************************************)
(* Python dict operations on option sets.                                  *)
(***************************************************************************)
\* k in d
HasKey(d, k) == \E i \in 1..Len(d) : d[i][1] = k

\* d[k] = v : an existing key keeps its position, a new key is appended
DictSetItem(d, k, v) ==
    IF HasKey(d, k)
    THEN [i \in 1..Len(d) |-> IF d[i][1] = k THEN <<k, v>> ELSE d[i]]
    ELSE Append(d, <<k, v>>)

\* d[k]
DictGetItem(d, k) == d[CHOOSE i \in 1..Len(d) : d[i][1] = k][2]

\* list(d.values())
DictValues(d) == [i \in 1..Len(d) |-> d[i][2]]

\* ' '.join(list) followed by the split() of run_test_commands: the words of
\* the fragments, in order
RECURSIVE JoinWords(_)
JoinWords(frags) ==
    IF frags = <<>> THEN <<>>
    ELSE Head(frags) \o JoinWords(Tail(frags))


(***************************************************************************)
(* Command building: run_netperf, lines 143-162.                           *)
(***************************************************************************)
\* '-l {}'.format(run_time)
FormatTestlen(run_time) == <<"-l", ToString(run_time)>>

\* '-t {}'.format(kwargs['testname'])
FormatTestname(testname) == <<"-t", testname>>

\* '-K {}'.format(kwargs['cong_algo'])
FormatCongAlgo(cong_algo) == <<"-K", cong_algo>>

\* A faulty variant of BaseOptions: the default test length is kept.
BaseOptions_default_len(run_time, kwargs) ==
    DictSetItem(DEFAULT_NETPERF_OPTIONS,
                "testname", FormatTestname(DictGetItem(kwargs, "testname")))

\* options after lines 143-147 (kwargs holds 'testname')
BaseOptions(run_time, kwargs) ==
    DictSetItem(
        DictSetItem(DEFAULT_NETPERF_OPTIONS, "testlen", FormatTestlen(run_time)),
        "testname", FormatTestname(DictGetItem(kwargs, "testname")))

\* the key under which line 151 stores the requested congestion algorithm
CongAlgoKey == "cong_alg"

\* A faulty variant of SelectTestOptions: an unrecognized test type gets an
\* empty option set instead of None.
SelectTestOptions_lenient(options, kwargs) ==
    IF DictGetItem(options, "testname") = <<"-t", "TCP_STREAM">>
    THEN IF HasKey(kwargs, "cong_algo")
         THEN [err |-> "none", none |-> FALSE,
               opts |-> DictSetItem(NETPERF_TCP_OPTIONS, CongAlgoKey,
                            FormatCongAlgo(DictGetItem(kwargs, "cong_algo")))]
         ELSE [err |-> "KeyError", none |-> TRUE, opts |-> <<>>]
    ELSE IF DictGetItem(options, "testname") = <<"-t", "UDP_STREAM">>
    THEN [err |-> "none", none |-> FALSE, opts |-> NETPERF_UDP_OPTIONS]
    ELSE [err |-> "none", none |-> FALSE, opts |-> <<>>]

\* A faulty variant of SelectTestOptions: UDP_STREAM gets the TCP set.
SelectTestOptions_tcp_for_udp(options, kwargs) ==
    IF DictGetItem(options, "testname") = <<"-t", "TCP_STREAM">>
    THEN IF HasKey(kwargs, "cong_algo")
         THEN [err |-> "none", none |-> FALSE,
               opts |-> DictSetItem(NETPERF_TCP_OPTIONS, CongAlgoKey,
                            FormatCongAlgo(DictGetItem(kwargs, "cong_algo")))]
         ELSE [err |-> "KeyError", none |-> TRUE, opts |-> <<>>]
    ELSE IF DictGetItem(options, "testname") = <<"-t", "UDP_STREAM">>
    THEN [err |-> "none", none |-> FALSE, opts |-> NETPERF_TCP_OPTIONS]
    ELSE [err |-> "none", none |-> TRUE, opts |-> <<>>]

\* test_options after lines 144-153: [err, none, opts]; none = TRUE stands
\* for the Python value None
SelectTestOptions(options, kwargs) ==
    IF DictGetItem(options, "testname") = <<"-t", "TCP_STREAM">>
    THEN IF HasKey(kwargs, "cong_algo")
         THEN [err |-> "none", none |-> FALSE,
               opts |-> DictSetItem(NETPERF_TCP_OPTIONS, CongAlgoKey,
                            FormatCongAlgo(DictGetItem(kwargs, "cong_algo")))]
         ELSE [err |-> "KeyError", none |-> TRUE, opts |-> <<>>]
    ELSE IF DictGetItem(options, "testname") = <<"-t", "UDP_STREAM">>
    THEN [err |-> "none", none |-> FALSE, opts |-> NETPERF_UDP_OPTIONS]
    ELSE [err |-> "none", none |-> TRUE, opts |-> <<>>]

\* lines 143-162: the outcome of command building for a request, [err, cmd];
\* cmd is the argument vector cmd.split() of run_test_commands gives
BuildCommand(r) ==
    IF ~HasKey(r.kwargs, "testname")
    THEN [err |-> "KeyError", cmd |-> <<>>]                     \* line 147
    ELSE LET options == BaseOptions(r.run_time, r.kwargs)
             sel     == SelectTestOptions(options, r.kwargs)
         IN  IF sel.err # "none"
             THEN [err |-> sel.err, cmd |-> <<>>]               \* line 151
             ELSE IF sel.none
             THEN [err |-> "AttributeError", cmd |-> <<>>]      \* line 157
             ELSE [err |-> "none",
                   cmd |-> <<"ip", "netns", "exec", r.ns_name, "netperf">>
                           \o JoinWords(DictValues(options))
                           \o <<"-H", r.destination_ip, "--">>
                           \o JoinWords(DictValues(sel.opts))]

\* the local dict `options` when command building ends or raises: the copy
\* of line 143 with the item assignments of lines 146-147 (line 147 raises
\* before assigning when kwargs has no 'testname')
OptionsWritten(r) ==
    IF HasKey(r.kwargs, "testname")
    THEN BaseOptions(r.run_time, r.kwargs)
    ELSE DictSetItem(DEFAULT_NETPERF_OPTIONS, "testlen",
                     FormatTestlen(r.run_time))

\* the copy of NETPERF_TCP_OPTIONS when command building ends or raises:
\* made at line 150 and assigned to at line 151, for TCP_STREAM only (the
\* copy of NETPERF_UDP_OPTIONS, line 153, is never assigned to)
TcpOptionsWritten(r) ==
    IF /\ HasKey(r.kwargs, "testname")
       /\ DictGetItem(r.kwargs, "testname") = "TCP_STREAM"
       /\ HasKey(r.kwargs, "cong_algo")
    THEN SelectTestOptions(BaseOptions(r.run_time, r.kwargs), r.kwargs).opts
    ELSE NETPERF_TCP_OPTIONS

\* A faulty variant of GlobalAfter: the local dict is the module-level dict
\* itself (no copy), so the assignments reach it.
GlobalAfter_alias(global, local) == local

\* lines 143, 150, 153: the module-level dict after the item assignments made
\* on the local dict: copy.copy returned a new dict, so the module-level one
\* is as it was
GlobalAfter(global, local) == global

\* the words of an argument vector after the '--' separator
RECURSIVE AfterDashes(_)
AfterDashes(argv) ==
    IF argv = <<>> THEN <<>>
    ELSE IF Head(argv) = "--" THEN Tail(argv)
    ELSE AfterDashes(Tail(argv))

\* positions of flag f in an argument vector
FlagPositions(argv, f) == {i \in 1..Len(argv) : argv[i] = f}

(***************************************************************************)
(* Raw output and its parsing: parse_stats, lines 86-112.                  *)
(*                                                                         *)
(* Raw output is a sequence of lines; a line is a throughput marker        *)
(* NETPERF_INTERIM_RESULT[n]=<int>.<frac>, a timestamp marker              *)
(* NETPERF_ENDING[n]=<int>.<frac>, or text that matches neither pattern.   *)
(* <int> and <frac> are the digit strings matched by \d+ and \d+.          *)
(***************************************************************************)
Marker(kind, int, frac) == [kind |-> kind, int |-> int, frac |-> frac]

OtherLine == Marker("other", <<0>>, <<0>>)

RECURSIVE DigitsVal(_)
DigitsVal(ds) ==
    IF ds = <<>> THEN 0
    ELSE DigitsVal(SubSeq(ds, 1, Len(ds) - 1)) * 10 + ds[Len(ds)]

RECURSIVE Pow10(_)
Pow10(n) == IF n = 0 THEN 1 ELSE 10 * Pow10(n - 1)

\* float('<int>.<frac>'), as a fixed-point number with FracDigits digits
\* after the point: "1.0", "1.00" and "01.0" are the same float
Float(m) ==
    DigitsVal(m.int) * Pow10(FracDigits)
    + DigitsVal(m.frac) * Pow10(FracDigits - Len(m.frac))

\* re.findall(pattern, raw_stats): the matching lines, in order
RECURSIVE FindAll(_, _)
FindAll(kind, raw) ==
    IF raw = <<>> THEN <<>>
    ELSE IF Head(raw).kind = kind
         THEN <<Head(raw)>> \o FindAll(kind, Tail(raw))
         ELSE FindAll(kind, Tail(raw))

\* lines 87-92
Throughputs(raw) ==
    LET stats == FindAll("NETPERF_INTERIM_RESULT", raw)
    IN  [i \in 1..Len(stats) |-> Float(stats[i])]

\* lines 96-101
Timestamps(raw) ==
    LET stats == FindAll("NETPERF_ENDING", raw)
    IN  [i \in 1..Len(stats) |-> Float(stats[i])]

\* a Python dict of floats, as a function
EmptyDict == [k \in {} |-> 0]

\* A faulty variant of SetItem: an existing key keeps its value.
SetItem_keepfirst(d, k, v) ==
    [x \in DOMAIN d \cup {k} |-> IF x \in DOMAIN d THEN d[x] ELSE v]

\* stats_dict[k] = v
SetItem(d, k, v) == [x \in DOMAIN d \cup {k} |-> IF x = k THEN v ELSE d[x]]

\* Faulty variants of LoopCount: one iteration too few, one too many.
LoopCount_short(tputs, tstamps) ==
    IF Len(tputs) = 0 THEN 0 ELSE Len(tputs) - 1

LoopCount_over(tputs, tstamps) == Len(tputs) + 1

\* range(len(throughputs)), line 111, as the number of iterations
LoopCount(tputs, tstamps) == Len(tputs)

\* lines 109-112: the loop, iteration i of n, starting from dict d;
\* timestamps[i] past the end of the list raises IndexError
RECURSIVE Loop(_, _, _, _, _)
Loop(i, n, tputs, tstamps, d) ==
    IF i > n THEN [err |-> "none", dict |-> d]
    ELSE IF i > Len(tstamps) \/ i > Len(tputs)
         THEN [err |-> "IndexError", dict |-> EmptyDict]
         ELSE Loop(i + 1, n, tputs, tstamps, SetItem(d, tstamps[i], tputs[i]))

\* lines 109-112: [err, dict]
BuildStatsDict(tputs, tstamps) ==
    Loop(1, LoopCount(tputs, tstamps), tputs, tstamps, EmptyDict)

(***************************************************************************)
(* Inputs.                                                                 *)
(***************************************************************************)
Namespaces == {"ns_a", "ns_b"}

\* kwargs as a dict: a sequence of <<key, value>> pairs
Kwargs(testname, cong_algo) ==
    << <<"testname", testname>>, <<"cong_algo", cong_algo>> >>

Request(ns_name, destination_ip, start_time, run_time, kwargs) ==
    [ns_name |-> ns_name, destination_ip |-> destination_ip,
     start_time |-> start_time, run_time |-> run_time, kwargs |-> kwargs]

\* the request of a unit that has not called run_netperf
NoRequest == Request("", "", 0, 0, <<>>)

TestNames == {"TCP_STREAM", "UDP_STREAM", "TCP_RR"}
CongAlgos == {"cubic", "reno"}

\* every shape of kwargs: both keys, 'testname' only, 'cong_algo' only, none
AllKwargs ==
    {Kwargs(t, c) : t \in TestNames, c \in CongAlgos}
    \cup {<< <<"testname", t>> >> : t \in TestNames}
    \cup {<< <<"cong_algo", c>> >> : c \in CongAlgos}
    \cup {<<>>}

\* requests of the command-building specification
AllRequests ==
    {Request(n, d, s, t, k) :
        n \in Namespaces, d \in {"10.0.0.2", "10.0.1.2"}, s \in {-1, 0, 1},
        t \in {5, RUNTIME}, k \in AllKwargs}

\* requests of the concurrent specification: both namespaces, with and
\* without a start delay, a recognized and an unrecognized test type
RunRequests ==
    {Request(n, "10.0.0.2", s, RUNTIME, Kwargs(t, "reno")) :
        n \in Namespaces, s \in {0, 1}, t \in {"TCP_STREAM", "TCP_RR"}}

\* the request of the parser specification
ParseRequests ==
    {Request("ns_a", "10.0.0.2", 1, RUNTIME, Kwargs("TCP_STREAM", "reno"))}

ThroughputMarkers ==
    {Marker("NETPERF_INTERIM_RESULT", <<1, 0>>, <<0>>),
     Marker("NETPERF_INTERIM_RESULT", <<2, 0>>, <<0>>)}

TimestampMarkers ==
    {Marker("NETPERF_ENDING", <<1>>, <<0>>),
     Marker("NETPERF_ENDING", <<1>>, <<0, 0>>),
     Marker("NETPERF_ENDING", <<2>>, <<0>>)}

Lines == ThroughputMarkers \cup TimestampMarkers \cup {OtherLine}

\* raw outputs of the parser specification: every text of at most MaxLen lines
AllOutputs == UNION {[1..n -> Lines] : n \in 0..MaxLen}

\* raw outputs of the concurrent specification for unit u: nothing, a lone
\* throughput marker, or one sample whose throughput names the unit, at one
\* of NumUnits timestamps
RunOutputs(u) ==
    {<<>>, <<Marker("NETPERF_INTERIM_RESULT", <<u>>, <<0>>)>>} \cup
    {<<Marker("NETPERF_INTERIM_RESULT", <<u>>, <<0>>),
       Marker("NETPERF_ENDING", <<k>>, <<0>>)>> : k \in Units}

\* how a child ends: its exit status and what it wrote to standard error
Exit(returncode, stderr) == [returncode |-> returncode, stderr |-> stderr]

\* the child succeeds silently
CleanExits == {Exit(0, "")}

\* every combination of a zero / non-zero status and empty / non-empty
\* standard error
AllExits == {Exit(rc, e) : rc \in {0, 1}, e \in {"", "netperf: error"}}

\* the request and the raw outputs of the exit-status specification
ExitRequests ==
    {Request("ns_a", "10.0.0.2", 1, RUNTIME, Kwargs("UDP_STREAM", "cubic"))}

ExitOutputs ==
    {<<>>,
     <<Marker("NETPERF_INTERIM_RESULT", <<1, 0>>, <<0>>)>>,
     <<Marker("NETPERF_INTERIM_RESULT", <<1, 0>>, <<0>>),
       Marker("NETPERF_ENDING", <<1>>, <<0>>)>>}

\* requests of the option-set specification: every test type with and
\* without a congestion algorithm, no test type at all, two test lengths
OptionRequests ==
    {Request("ns_a", "10.0.0.2", 1, t, k) :
        t \in {5, RUNTIME},
        k \in {Kwargs(n, "reno") : n \in TestNames}
              \cup {<< <<"testname", n>> >> : n \in TestNames}
              \cup {<< <<"cong_algo", "reno">> >>}}

\* raw outputs of the command-building specification
BuildOutputs ==
    {<<>>,
     <<Marker("NETPERF_INTERIM_RESULT", <<1, 0>>, <<0>>),
       Marker("NETPERF_ENDING", <<1>>, <<0>>)>>}

(***************************************************************************)
(* State.                                                                  *)
(***************************************************************************)
VARIABLES
    pc,              \* pc[u]: where unit u is in run_netperf / parse_stats
    req,             \* req[u]: the arguments of unit u's run_netperf call
    cmd,             \* cmd[u]: the argument vector of the built command
    child,           \* child[u]: u's client process: state, status, stderr
    raw_stats,       \* raw_stats[u]: the captured output of u's child
    throughputs,     \* throughputs[u]: the floats of the throughput markers
    timestamps,      \* timestamps[u]: the floats of the timestamp markers
    stats_dict,      \* stats_dict[u]: the parsed samples
    err,             \* err[u]: the exception unit u ended with, or "none"
    lock,            \* TRUE while the shared lock is held
    netperf_results, \* the shared store: namespace -> (timestamp -> throughput)
    item,            \* item[u]: the store contents add_result is working on
    trace            \* trace[u]: the steps unit u has taken, in order

vars == <<pc, req, cmd, child, raw_stats, throughputs, timestamps,
          stats_dict, err, lock, netperf_results, item, trace,
          DEFAULT_NETPERF_OPTIONS, NETPERF_TCP_OPTIONS, NETPERF_UDP_OPTIONS>>

\* no client process has been started
NoChild == [state |-> "none", returncode |-> 0, stderr |-> ""]

EmptyStore == [n \in {} |-> EmptyDict]

Init ==
    /\ pc = [u \in Units |-> "idle"]
    /\ req = [u \in Units |-> NoRequest]
    /\ cmd = [u \in Units |-> <<>>]
    /\ child = [u \in Units |-> NoChild]
    /\ raw_stats = [u \in Units |-> <<>>]
    /\ throughputs = [u \in Units |-> <<>>]
    /\ timestamps = [u \in Units |-> <<>>]
    /\ stats_dict = [u \in Units |-> EmptyDict]
    /\ err = [u \in Units |-> "none"]
    /\ lock = FALSE
    /\ netperf_results = EmptyStore
    /\ item = [u \in Units |-> EmptyStore]
    /\ trace = [u \in Units |-> <<>>]
    /\ DEFAULT_NETPERF_OPTIONS = InitialDefaultOptions
    /\ NETPERF_TCP_OPTIONS = InitialTcpOptions
    /\ NETPERF_UDP_OPTIONS = InitialUdpOptions

Step(u, to, event) ==
    /\ pc' = [pc EXCEPT ![u] = to]
    /\ trace' = [trace EXCEPT ![u] = Append(@, event)]

Raise(u, e) ==
    /\ pc' = [pc EXCEPT ![u] = "failed"]
    /\ err' = [err EXCEPT ![u] = e]
    /\ trace' = [trace EXCEPT ![u] = Append(@, "raise")]

(***************************************************************************)
(* run_netperf                                                             *)
(***************************************************************************)
\* lines 143-162: the call with a request from R, up to the built command
Build(u, R) ==
    /\ pc[u] = "idle"
    /\ \E r \in R :
         LET b == BuildCommand(r)
         IN  /\ req' = [req EXCEPT ![u] = r]
             /\ IF b.err = "none"
                THEN /\ cmd' = [cmd EXCEPT ![u] = b.cmd]
                     /\ Step(u, "built", "build")
                     /\ UNCHANGED err
                ELSE /\ Raise(u, b.err)
                     /\ UNCHANGED cmd
             /\ DEFAULT_NETPERF_OPTIONS' =
                    GlobalAfter(DEFAULT_NETPERF_OPTIONS, OptionsWritten(r))
             /\ NETPERF_TCP_OPTIONS' =
                    GlobalAfter(NETPERF_TCP_OPTIONS, TcpOptionsWritten(r))
             /\ NETPERF_UDP_OPTIONS' =
                    GlobalAfter(NETPERF_UDP_OPTIONS, NETPERF_UDP_OPTIONS)
    /\ UNCHANGED <<child, raw_stats, throughputs, timestamps, stats_dict, lock,
                   netperf_results, item>>

\* A faulty variant of NeedsSleep: the start delay is ignored.
NeedsSleep_never(start_time) == FALSE

\* line 164
NeedsSleep(start_time) == start_time # 0

\* line 165: time.sleep(start_time) suspends the unit; a negative length
\* raises ValueError
Sleep(u) ==
    /\ pc[u] = "built"
    /\ NeedsSleep(req[u].start_time)
    /\ IF req[u].start_time < 0
       THEN Raise(u, "ValueError")
       ELSE Step(u, "sleeping", "sleep") /\ UNCHANGED err
    /\ UNCHANGED module_options
    /\ UNCHANGED <<req, cmd, child, raw_stats, throughputs, timestamps,
                   stats_dict,
                   lock, netperf_results, item>>

AtLaunch(u) ==
    \/ pc[u] = "built" /\ ~NeedsSleep(req[u].start_time)
    \/ pc[u] = "sleeping"

\* A faulty variant of Launch: the child is started, and waited for, with
\* the shared lock taken.
Launch_locked(u) ==
    /\ AtLaunch(u)
    /\ ~lock
    /\ lock' = TRUE
    /\ child' = [child EXCEPT ![u].state = "running"]
    /\ Step(u, "running", "launch")
    /\ UNCHANGED module_options
    /\ UNCHANGED <<req, cmd, raw_stats, throughputs, timestamps,
                   stats_dict,
                   err, netperf_results, item>>

\* lines 166, 56-58: the sleep (if any) is over and Popen starts the child
Launch(u) ==
    /\ AtLaunch(u)
    /\ child' = [child EXCEPT ![u].state = "running"]
    /\ Step(u, "running", "launch")
    /\ UNCHANGED module_options
    /\ UNCHANGED <<req, cmd, raw_stats, throughputs, timestamps,
                   stats_dict,
                   err, lock, netperf_results, item>>

\* lines 56-58: Popen cannot start the child and raises
LaunchFail(u) ==
    /\ AtLaunch(u)
    /\ Raise(u, "OSError")
    /\ UNCHANGED module_options
    /\ UNCHANGED <<req, cmd, child, raw_stats, throughputs, timestamps,
                   stats_dict,
                   lock, netperf_results, item>>

\* A faulty variant of CommunicateResult: a non-zero exit status is an error.
CommunicateResult_checked(stdout, stderr, returncode) ==
    IF returncode # 0
    THEN [err |-> "CalledProcessError", out |-> <<>>]
    ELSE [err |-> "none", out |-> stdout]

\* lines 60-61: what run_test_commands makes of the child's end, [err, out]:
\* the decoded standard output is returned; standard error and the exit
\* status are not looked at
CommunicateResult(stdout, stderr, returncode) ==
    [err |-> "none", out |-> stdout]

\* lines 59-61: communicate() returns when the child has exited, with
\* standard output o of O and an end x of X
ChildExit(u, O, X) ==
    /\ pc[u] = "running"
    /\ \E o \in O, x \in X :
         LET c == CommunicateResult(o, x.stderr, x.returncode)
         IN  /\ child' = [child EXCEPT ![u] =
                            [state |-> "exited", returncode |-> x.returncode,
                             stderr |-> x.stderr]]
             /\ IF c.err = "none"
                THEN /\ raw_stats' = [raw_stats EXCEPT ![u] = c.out]
                     /\ Step(u, "exited", "exit")
                     /\ UNCHANGED err
                ELSE /\ Raise(u, c.err)
                     /\ UNCHANGED raw_stats
    /\ UNCHANGED module_options
    /\ UNCHANGED <<req, cmd, throughputs, timestamps, stats_dict, lock,
                   netperf_results, item>>

(***************************************************************************)
(* parse_stats                                                             *)
(***************************************************************************)
\* A faulty variant of ParseReady: parse_stats starts without waiting for the
\* child's end.
ParseReady_nowait(u) == pc[u] \in {"running", "exited"}

\* lines 59-61, 166-167: run_test_commands(cmd, block=True) returns, and
\* parse_stats is called, only when communicate() has returned
ParseReady(u) == pc[u] = "exited"

\* lines 86-112
Parse(u) ==
    /\ ParseReady(u)
    /\ throughputs' = [throughputs EXCEPT ![u] = Throughputs(raw_stats[u])]
    /\ timestamps' = [timestamps EXCEPT ![u] = Timestamps(raw_stats[u])]
    /\ LET p == BuildStatsDict(throughputs'[u], timestamps'[u])
       IN  IF p.err = "none"
           THEN /\ stats_dict' = [stats_dict EXCEPT ![u] = p.dict]
                /\ Step(u, "parsed", "parse")
                /\ UNCHANGED err
           ELSE /\ Raise(u, p.err)
                /\ UNCHANGED stats_dict
    /\ UNCHANGED module_options
    /\ UNCHANGED <<req, cmd, child, raw_stats, lock, netperf_results, item>>

\* A faulty variant of CanAcquire: acquire() returns whatever the lock's state.
CanAcquire_always(l) == TRUE

\* line 120: lock.acquire() returns only when the lock is free
CanAcquire(l) == ~l

\* line 120
Acquire(u) ==
    /\ pc[u] = "parsed"
    /\ CanAcquire(lock)
    /\ lock' = TRUE
    /\ Step(u, "locked", "acquire")
    /\ UNCHANGED module_options
    /\ UNCHANGED <<req, cmd, child, raw_stats, throughputs, timestamps,
                   stats_dict,
                   err, netperf_results, item>>

\* NetperfResults.add_result(ns_name, stats_dict), line 121: the store is
\* read, ...
AddResultRead(u) ==
    /\ pc[u] = "locked"
    /\ item' = [item EXCEPT ![u] = netperf_results]
    /\ Step(u, "merging", "add_result")
    /\ UNCHANGED module_options
    /\ UNCHANGED <<req, cmd, child, raw_stats, throughputs, timestamps,
                   stats_dict,
                   err, lock, netperf_results>>

\* the series of namespace n in store s (created lazily: empty when absent)
Series(s, n) == IF n \in DOMAIN s THEN s[n] ELSE EmptyDict

\* series d with the samples of dict new written over it
Merge(d, new) ==
    [k \in DOMAIN d \cup DOMAIN new |-> IF k \in DOMAIN new THEN new[k] ELSE d[k]]

\* store s with the samples new merged into the series of namespace n
AddResult(s, n, new) ==
    [m \in DOMAIN s \cup {n} |->
        IF m = n THEN Merge(Series(s, n), new) ELSE s[m]]

\* ... and written back with the samples merged into the namespace's series
AddResultWrite(u) ==
    /\ pc[u] = "merging"
    /\ netperf_results' = AddResult(item[u], req[u].ns_name, stats_dict[u])
    /\ item' = [item EXCEPT ![u] = EmptyStore]
    /\ Step(u, "merged", "stored")
    /\ UNCHANGED module_options
    /\ UNCHANGED <<req, cmd, child, raw_stats, throughputs, timestamps,
                   stats_dict,
                   err, lock>>

\* line 121: add_result raises instead of merging; nothing encloses the
\* call (no try/finally around lines 120-122), so the exception leaves
\* parse_stats and run_netperf and line 122 is not reached
AddResultRaise(u) ==
    /\ pc[u] = "locked"
    /\ Raise(u, "Exception")
    /\ UNCHANGED module_options
    /\ UNCHANGED <<req, cmd, child, raw_stats, throughputs, timestamps,
                   stats_dict,
                   lock, netperf_results, item>>

\* line 122, and the return of parse_stats and run_netperf
Release(u) ==
    /\ pc[u] = "merged"
    /\ lock' = FALSE
    /\ Step(u, "done", "release")
    /\ UNCHANGED module_options
    /\ UNCHANGED <<req, cmd, child, raw_stats, throughputs, timestamps,
                   stats_dict,
                   err, netperf_results, item>>

(***************************************************************************)
(* Specifications.                                                         *)
(***************************************************************************)
\* the steps of unit u that take no input
Run(u) ==
    \/ Sleep(u)
    \/ Launch(u)
    \/ LaunchFail(u)
    \/ Parse(u)
    \/ Acquire(u)
    \/ AddResultRead(u)
    \/ AddResultWrite(u)
    \/ Release(u)

\* NumUnits concurrent units sharing the lock and a store whose add_result
\* may raise
Next ==
    \E u \in Units :
        \/ Build(u, RunRequests)
        \/ ChildExit(u, RunOutputs(u), CleanExits)
        \/ Run(u)
        \/ AddResultRaise(u)

Spec == Init /\ [][Next]_vars

\* one unit, every request shape
NextBuild ==
    \/ Build(1, AllRequests)
    \/ ChildExit(1, BuildOutputs, AllExits)
    \/ Run(1)

SpecBuild == Init /\ [][NextBuild]_vars

\* one unit, every raw output of at most MaxLen lines
NextParse ==
    \/ Build(1, ParseRequests)
    \/ ChildExit(1, AllOutputs, CleanExits)
    \/ Run(1)

SpecParse == Init /\ [][NextParse]_vars

\* NumUnits units running the same request, whose children end with every
\* exit status and standard error
NextExit ==
    \E u \in Units :
        \/ Build(u, ExitRequests)
        \/ ChildExit(u, ExitOutputs, AllExits)
        \/ Run(u)

SpecExit == Init /\ [][NextExit]_vars

\* NumUnits units calling run_netperf with requests of every kind, in every
\* order and interleaving
NextOptions ==
    \E u \in Units :
        \/ Build(u, OptionRequests)
        \/ ChildExit(u, {<<>>}, CleanExits)
        \/ Run(u)

SpecOptions == Init /\ [][NextOptions]_vars

(***************************************************************************)
(* Properties.                                                             *)
(***************************************************************************)
Range(f) == {f[i] : i \in DOMAIN f}

Min(a, b) == IF a <= b THEN a ELSE b

\* unit u has finished run_netperf by returning
Returned(u) == pc[u] = "done"

\* unit u's add_result has written the store
Stored(u) == pc[u] \in {"merged", "done"}

\* unit u is between lock.acquire() and lock.release()
InCritical(u) == pc[u] \in {"locked", "merging", "merged"}

\* unit u's child has exited and parse_stats has run its loop (to the end or
\* to an exception)
ParseRan(u) == "exit" \in Range(trace[u]) /\ pc[u] # "exited"

\* the requested test type of a unit whose kwargs hold one
TestnameOf(u) == DictGetItem(req[u].kwargs, "testname")

\* the samples the first n pairs give: every timestamp among them mapped to
\* the throughput of the last pair that carries it
PairedSamples(tputs, tstamps, n) ==
    [k \in {tstamps[i] : i \in 1..n} |->
        LET last == CHOOSE i \in 1..n :
                      /\ tstamps[i] = k
                      /\ \A j \in 1..n : tstamps[j] = k => j <= i
        IN  tputs[last]]

\* C1: concurrent merges by units that all share the lock and contribute
\* disjoint timestamp sets end with a store whose series are the union of the
\* contributed samples: when every unit has finished, each namespace's series
\* holds exactly the samples of the units that merged into it.
C1_NoLostUpdate ==
    ( /\ \A u \in Units : pc[u] \in {"done", "failed"}
      /\ \A u, v \in Units :
           (u # v /\ Returned(u) /\ Returned(v)
              /\ req[u].ns_name = req[v].ns_name)
           => DOMAIN stats_dict[u] \cap DOMAIN stats_dict[v] = {} )
    => \A n \in Namespaces :
         LET from == {u \in Units : Returned(u) /\ req[u].ns_name = n}
             got  == Series(netperf_results, n)
         IN  /\ DOMAIN got = UNION {DOMAIN stats_dict[u] : u \in from}
             /\ \A u \in from : \A k \in DOMAIN stats_dict[u] :
                  got[k] = stats_dict[u][k]

\* every unit has merged a non-empty sample set into the same namespace, the
\* sets are disjoint, and the series holds one sample per unit
C1_Witness ==
    /\ \A u \in Units : Returned(u) /\ DOMAIN stats_dict[u] # {}
    /\ \A u, v \in Units :
         /\ req[u].ns_name = req[v].ns_name
         /\ u # v => DOMAIN stats_dict[u] \cap DOMAIN stats_dict[v] = {}
    /\ Cardinality(DOMAIN Series(netperf_results, req[1].ns_name)) = NumUnits

\* C2: at most one unit is between lock.acquire and lock.release, whatever
\* namespaces the units write to.
C2_MutualExclusion ==
    \A u, v \in Units : (InCritical(u) /\ InCritical(v)) => u = v

\* a unit is inside the merge while a unit of another namespace waits at
\* lock.acquire
C2_Witness ==
    \E u, v \in Units :
        /\ pc[u] = "merging"
        /\ pc[v] = "parsed"
        /\ req[u].ns_name # req[v].ns_name

\* C3: the command built for a TCP_STREAM request contains exactly one -K
\* flag, and its value is the requested congestion-control algorithm.
C3_OneCongFlag ==
    \A u \in Units :
        (pc[u] \notin {"idle", "failed"} /\ TestnameOf(u) = "TCP_STREAM")
        => LET at == FlagPositions(cmd[u], "-K")
           IN  /\ Cardinality(at) = 1
               /\ \A i \in at :
                    cmd[u][i + 1] = DictGetItem(req[u].kwargs, "cong_algo")

\* C4: parsing an output with m throughput and n timestamp markers ends
\* without an error and pairs exactly the first min(m, n) positions.
C4_PairsMin ==
    \A u \in Units :
        ParseRan(u)
        => /\ pc[u] # "failed"
           /\ stats_dict[u] =
                PairedSamples(throughputs[u], timestamps[u],
                              Min(Len(throughputs[u]), Len(timestamps[u])))

\* C5: a run whose test type is neither TCP_STREAM nor UDP_STREAM fails with
\* an error while the command is built: no command is returned, and the unit
\* never sleeps, launches a client, acquires the lock or merges.
C5_UnknownTypeFails ==
    \A u \in Units :
        (HasKey(req[u].kwargs, "testname")
           /\ TestnameOf(u) \notin {"TCP_STREAM", "UDP_STREAM"})
        => /\ pc[u] = "failed"
           /\ err[u] # "none"
           /\ cmd[u] = <<>>
           /\ trace[u] = <<"raise">>
           /\ ~lock
           /\ netperf_results = EmptyStore

\* a unit asked for TCP_RR and failed
C5_Witness ==
    \E u \in Units :
        /\ HasKey(req[u].kwargs, "testname")
        /\ TestnameOf(u) = "TCP_RR"
        /\ pc[u] = "failed"
        /\ err[u] = "AttributeError"

\* C6: whatever the raw output of a completed client process, the run does
\* not raise, and it invokes add_result exactly once by the time it returns.
C6_RunCompletes ==
    \A u \in Units :
        "exit" \in Range(trace[u])
        => /\ pc[u] # "failed"
           /\ Cardinality({i \in DOMAIN trace[u] : trace[u][i] = "add_result"})
                = (IF Stored(u) \/ pc[u] = "merging" THEN 1 ELSE 0)

\* C7: with equally many throughput and timestamp markers and distinct
\* timestamps, the sample set maps the i-th timestamp to the i-th throughput
\* for every i and holds nothing else.
C7_PositionalPairing ==
    \A u \in Units :
        ( /\ ParseRan(u)
          /\ Len(throughputs[u]) = Len(timestamps[u])
          /\ \A i, j \in DOMAIN timestamps[u] :
               timestamps[u][i] = timestamps[u][j] => i = j )
        => /\ pc[u] # "failed"
           /\ DOMAIN stats_dict[u] = Range(timestamps[u])
           /\ \A i \in DOMAIN timestamps[u] :
                stats_dict[u][timestamps[u][i]] = throughputs[u][i]

\* two interleaved pairs with distinct timestamps and distinct throughputs
\* were parsed
C7_Witness ==
    \E u \in Units :
        /\ pc[u] = "parsed"
        /\ Len(raw_stats[u]) = 4
        /\ raw_stats[u][1].kind = "NETPERF_INTERIM_RESULT"
        /\ raw_stats[u][2].kind = "NETPERF_ENDING"
        /\ raw_stats[u][3].kind = "NETPERF_INTERIM_RESULT"
        /\ raw_stats[u][4].kind = "NETPERF_ENDING"
        /\ throughputs[u][1] # throughputs[u][2]
        /\ timestamps[u][1] # timestamps[u][2]
        /\ Cardinality(DOMAIN stats_dict[u]) = 2

C9_EmptyInput ==
    \A u \in Units :
        (ParseRan(u) /\ raw_stats[u] = <<>>)
        => /\ pc[u] # "failed"
           /\ throughputs[u] = <<>>
           /\ timestamps[u] = <<>>
           /\ stats_dict[u] = EmptyDict

\* the empty output was parsed
C9_Witness ==
    \E u \in Units :
        /\ pc[u] = "parsed"
        /\ raw_stats[u] = <<>>
        /\ trace[u][Len(trace[u])] = "parse"

\* C10: the start-delay sleep comes right after the command is built and
\* before the client is launched; a unit with start_time > 0 is launched only
\* out of the sleep, a unit with start_time = 0 never sleeps and is launched
\* right after the build.
C10_SleepBeforeLaunch ==
    \A u \in Units :
        LET t == trace[u]
        IN  /\ \A i \in DOMAIN t :
                 t[i] = "sleep" => (i > 1 /\ t[i - 1] = "build"
                                          /\ req[u].start_time > 0)
            /\ \A i \in DOMAIN t :
                 t[i] = "launch"
                 => /\ i > 1
                    /\ req[u].start_time > 0 => t[i - 1] = "sleep"
                    /\ req[u].start_time = 0 => t[i - 1] = "build"
            /\ pc[u] = "sleeping" <=> (t # <<>> /\ t[Len(t)] = "sleep")
            /\ req[u].start_time = 0 => "sleep" \notin Range(t)

\* a unit with a start delay has slept and then launched its client
C10_Witness ==
    \E u \in Units :
        /\ req[u].start_time > 0
        /\ pc[u] = "running"
        /\ trace[u] = <<"build", "sleep", "launch">>

\* C11: parsing, lock acquisition and merge come strictly after the unit's
\* own child has terminated and its output has been captured: a unit that has
\* begun any of them has a child that has exited, and in its history the exit
\* precedes them.
C11_ParseAfterExit ==
    \A u \in Units :
        LET t == trace[u]
        IN  /\ (pc[u] \in {"parsed", "locked", "merging", "merged", "done"}
                  \/ \E i \in DOMAIN t :
                       t[i] \in {"parse", "acquire", "add_result", "stored"})
               => child[u].state = "exited"
            /\ \A i \in DOMAIN t :
                 t[i] \in {"parse", "acquire", "add_result", "stored"}
                 => \E j \in 1..(i - 1) : t[j] = "exit"
            /\ child[u].state = "running" <=> pc[u] = "running"

\* a unit is merging; its child has exited before it parsed
C11_Witness ==
    \E u \in Units :
        /\ pc[u] = "merging"
        /\ child[u].state = "exited"
        /\ trace[u][Len(trace[u]) - 3] = "exit"
        /\ trace[u][Len(trace[u]) - 2] = "parse"

\* unit u has a built command
HasCommand(u) == pc[u] \notin {"idle", "failed"} \/ "build" \in Range(trace[u])

\* C12: a built command carries the options of exactly one extension set, the
\* one of its test type: a TCP_STREAM command has the TCP set's flags (-K and
\* -k THROUGHPUT) and not the UDP-only -R after '--'; a UDP_STREAM command has
\* exactly '-R 1 -k THROUGHPUT' after '--' and no -K; no other test type
\* gets a command.
C12_OneExtensionSet ==
    \A u \in Units :
        HasCommand(u)
        => LET test_options == AfterDashes(cmd[u])
               flags == Range(test_options)
           IN  /\ TestnameOf(u) \in {"TCP_STREAM", "UDP_STREAM"}
               /\ Cardinality(FlagPositions(cmd[u], "--")) = 1
               /\ TestnameOf(u) = "TCP_STREAM"
                  => /\ "-K" \in flags
                     /\ \E i \in 1..(Len(test_options) - 1) :
                          /\ test_options[i] = "-k"
                          /\ test_options[i + 1] = "THROUGHPUT"
                     /\ "-R" \notin flags
               /\ TestnameOf(u) = "UDP_STREAM"
                  => /\ test_options = <<"-R", "1", "-k", "THROUGHPUT">>
                     /\ "-K" \notin Range(cmd[u])

\* a UDP_STREAM command was built and its client launched
C12_Witness ==
    \E u \in Units :
        /\ pc[u] = "running"
        /\ TestnameOf(u) = "UDP_STREAM"
        /\ AfterDashes(cmd[u]) = <<"-R", "1", "-k", "THROUGHPUT">>

\* C13: the command of a recognized test type starts with the namespace
\* prefix and the default options in their declared order (banner, IPv4, test
\* name, fill file, test length, interval), of which only the test name and
\* the test length carry the request's values, followed by '-H <peer-ip> --'
\* and then the test options.
C13_BaseOptions ==
    \A u \in Units :
        HasCommand(u)
        => LET head == <<"ip", "netns", "exec", req[u].ns_name, "netperf",
                         "-P", "0",
                         "-4",
                         "-t", TestnameOf(u),
                         "-F", "/dev/urandom",
                         "-l", ToString(req[u].run_time),
                         "-D", "-0.2",
                         "-H", req[u].destination_ip, "--">>
           IN  /\ Len(cmd[u]) > Len(head)
               /\ SubSeq(cmd[u], 1, Len(head)) = head
               /\ SubSeq(cmd[u], Len(head) + 1, Len(cmd[u]))
                    = AfterDashes(cmd[u])

\* a command was built for a run time other than the default one
C13_Witness ==
    \E u \in Units :
        /\ pc[u] = "built"
        /\ req[u].run_time # RUNTIME
        /\ TestnameOf(u) = "UDP_STREAM"
        /\ cmd[u][14] = ToString(req[u].run_time)

\* C14: merged entries are not retracted: no step removes a timestamp from
\* the series of any namespace, and the step in which a unit fails before its
\* merge (in command building, process launch or parsing) leaves the store
\* exactly as it was.
C14_NoRetraction ==
    [][ /\ \A n \in Namespaces :
             DOMAIN Series(netperf_results, n)
                \subseteq DOMAIN Series(netperf_results', n)
        /\ \A u \in Units :
             (pc[u] # "failed" /\ pc'[u] = "failed"
                /\ "stored" \notin Range(trace[u]))
             => netperf_results' = netperf_results ]_vars

\* a unit has merged a sample and returned, another unit has failed in
\* parsing, and the sample is still in the store
C14_Witness ==
    \E u, v \in Units :
        /\ pc[u] = "done"
        /\ DOMAIN stats_dict[u] # {}
        /\ pc[v] = "failed"
        /\ err[v] = "IndexError"
        /\ DOMAIN stats_dict[u]
             \subseteq DOMAIN Series(netperf_results, req[u].ns_name)

\* unit u's run has ended, by returning or by an exception
Finished(u) == pc[u] \in {"done", "failed"}

\* C15: the child's exit status and standard error are not inspected: two
\* finished runs of the same request whose children wrote the same standard
\* output took the same steps, ended the same way and contributed the same
\* samples, whatever the children's exit statuses and standard errors.
C15_StatusIgnored ==
    \A u, v \in Units :
        ( /\ Finished(u) /\ Finished(v)
          /\ child[u].state = "exited" /\ child[v].state = "exited"
          /\ req[u] = req[v]
          /\ raw_stats[u] = raw_stats[v] )
        => /\ trace[u] = trace[v]
           /\ pc[u] = pc[v]
           /\ err[u] = err[v]
           /\ stats_dict[u] = stats_dict[v]

\* two runs whose children wrote the same sample, one exiting with status 0
\* and a silent standard error, the other with a non-zero status and text on
\* standard error, have both returned with that sample
C15_Witness ==
    \E u, v \in Units :
        /\ pc[u] = "done" /\ pc[v] = "done"
        /\ child[u].returncode = 0 /\ child[u].stderr = ""
        /\ child[v].returncode # 0 /\ child[v].stderr # ""
        /\ raw_stats[u] = raw_stats[v]
        /\ DOMAIN stats_dict[v] # {}
        /\ stats_dict[u] = stats_dict[v]

\* the number of event e in unit u's history
Count(u, e) == Cardinality({i \in DOMAIN trace[u] : trace[u][i] = e})

\* unit u has acquired the lock and not released it since
HoldsLock(u) == Count(u, "acquire") > Count(u, "release")

\* unit u is suspended in time.sleep or in communicate()
Suspended(u) == pc[u] \in {"sleeping", "running"}

\* C16: the start-delay sleep and the wait for the child block only the
\* calling unit: a suspended unit never holds the lock, a taken lock is held
\* by a unit that is not suspended, and while a unit is suspended every other
\* unit can take its next step: launch, parse, acquire the lock when no unit
\* holds it, and merge.
C16_SuspensionBlocksOnlyCaller ==
    /\ lock => \E w \in Units : HoldsLock(w) /\ ~Suspended(w)
    /\ \A u \in Units :
         Suspended(u) =>
           /\ ~HoldsLock(u)
           /\ \A v \in Units \ {u} :
                /\ AtLaunch(v) => ENABLED Launch(v)
                /\ pc[v] = "exited" => ENABLED Parse(v)
                /\ (pc[v] = "parsed" /\ \A w \in Units : ~HoldsLock(w))
                     => ENABLED Acquire(v)
                /\ pc[v] = "locked" => ENABLED AddResultRead(v)
                /\ pc[v] = "merging" => ENABLED AddResultWrite(v)

\* one unit is asleep while another is inside add_result under the lock
C16_Witness ==
    \E u, v \in Units :
        /\ pc[u] = "sleeping"
        /\ pc[v] = "merging" /\ HoldsLock(v)

\* C17: every unit that acquires the lock releases it before it finishes,
\* whether add_result returns or raises: a unit that has returned or failed
\* does not hold the lock.
C17_ReleasedWhenFinished ==
    \A u \in Units : Finished(u) => ~HoldsLock(u)

\* unit u's add_result call writes the store in this step
Merges(u) == pc[u] = "merging" /\ pc'[u] = "merged"

\* C18: a merge for namespace A changes only A's series: the series of every
\* other namespace is unchanged, A's series gains exactly the merged
\* timestamps, its entries at other timestamps keep their values, and the
\* merged timestamps carry the merged values; no other step changes the
\* store.
C18_MergeFrame ==
    [][ /\ \A u \in Units :
             Merges(u) =>
               LET A == req[u].ns_name
                   old == Series(netperf_results, A)
                   new == Series(netperf_results', A)
               IN  /\ \A n \in Namespaces \ {A} :
                         Series(netperf_results', n) = Series(netperf_results, n)
                   /\ DOMAIN new = DOMAIN old \cup DOMAIN stats_dict[u]
                   /\ \A k \in DOMAIN old \ DOMAIN stats_dict[u] : new[k] = old[k]
                   /\ \A k \in DOMAIN stats_dict[u] : new[k] = stats_dict[u][k]
        /\ (\A u \in Units : ~Merges(u)) => netperf_results' = netperf_results
      ]_vars

\* a unit has merged samples into its namespace's series while another
\* namespace's series holds samples at other timestamps
C18_Witness ==
    \E u \in Units, n \in Namespaces :
        /\ pc[u] = "merged" /\ n # req[u].ns_name
        /\ DOMAIN stats_dict[u] # {}
        /\ DOMAIN Series(netperf_results, n) # {}
        /\ DOMAIN Series(netperf_results, n) # DOMAIN Series(netperf_results, req[u].ns_name)

\* unit u's run_netperf call has gone through command building
Called(u) == pc[u] # "idle"

\* C19: after any sequence and interleaving of run_netperf calls, failing
\* ones included, the module-level default, TCP and UDP option sets are as
\* the module defines them, and two calls with the same request end command
\* building the same way: the same command, or the same exception.
C19_OptionSetsUnchanged ==
    /\ DEFAULT_NETPERF_OPTIONS = InitialDefaultOptions
    /\ NETPERF_TCP_OPTIONS = InitialTcpOptions
    /\ NETPERF_UDP_OPTIONS = InitialUdpOptions
    /\ \A u, v \in Units :
         (Called(u) /\ Called(v) /\ req[u] = req[v])
         => /\ cmd[u] = cmd[v]
            /\ ("build" \in Range(trace[u])) = ("build" \in Range(trace[v]))

\* a TCP_STREAM call with its own test length and congestion algorithm has
\* built its command after another call failed in command building
C19_Witness ==
    \E u, v \in Units :
        /\ pc[u] = "failed" /\ trace[u] = <<"raise">>
        /\ "build" \in Range(trace[v])
        /\ req[v].run_time # RUNTIME
        /\ HasKey(req[v].kwargs, "cong_algo")
        /\ DictGetItem(req[v].kwargs, "testname") = "TCP_STREAM"
        /\ Len(cmd[v]) > 0

=============================================================================
